---- MODULE Spec2Model ----
(***************************************************************************)
(* testangel-browser: the session manager (State, browser-connect,         *)
(* browser-quit, Drop for State) and the instruction handlers that borrow  *)
(* the session, modelled from src/src/lib.rs and src/src/utils.rs.         *)
(*                                                                         *)
(* The WebDriver backend, the driver child processes and the environment   *)
(* variables are the environment: every call into them is a step whose     *)
(* outcome (Ok / Err) the environment chooses.                             *)
(***************************************************************************)
EXTENDS Integers, Sequences, FiniteSets, TLC

VARIABLES
    rt,            \* State.rt: Option<Runtime>
    driver,        \* State.driver: Option<WebDriver> (the session id it holds)
    child_driver,  \* State.child_driver: Option<Child> (the child it refers to)
    timeout,       \* State.timeout, in milliseconds
    interval,      \* State.interval, in milliseconds
    pc,            \* position of the handler that is running ("idle": none)
    local,         \* locals of the running browser-connect handler
    sessions,      \* the backend: every session opened by this process
    children,      \* the operating system: every driver child spawned
    dropped,       \* whether State was dropped: "no", "done" or "panicked"
    result,        \* what the last handler returned
    output,        \* the "element" output of the last selection instruction
    call,          \* log of the calls the running / last handler made
    afterQuit,     \* a quit returned Ok and no connect has returned Ok since
    input,         \* string_to_args: its parameter s, a sequence of characters
    pos,           \* string_to_args: the characters the loop has taken
    parse,         \* string_to_args: args, quoted, escaped, buffer
    parsePc,       \* string_to_args: "off", "loop" or "done"
    consumed,      \* string_to_args: the characters the loop body was run on
    ret,           \* string_to_args: the value returned
    pollPc,        \* query.wait(..).first(): "off", "query", "tick", "returned"
    elapsed,       \* the poller: milliseconds since it was started
    cur_tries      \* the poller: ticks so far

managerVars == <<rt, driver, child_driver, timeout, interval, pc, local,
                 sessions, children, dropped, result, output, call, afterQuit>>

parserVars == <<input, pos, parse, parsePc, consumed, ret>>

pollerVars == <<pollPc, elapsed, cur_tries>>

vars == <<managerVars, parserVars, pollerVars>>

---------------------------------------------------------------------------
(* Bounds of the model *)

\* sessions this process opens at the backend over a run
MaxSessions == 2
\* driver child processes spawned over a run
MaxChildren == 2
\* DOM nodes a session can hand out element references for
MaxNodes == 1
\* length of the strings string_to_args is run on
MaxLen == 5

---------------------------------------------------------------------------
(* Rust's Option *)

None == <<>>
Some(x) == <<x>>
Unwrap(o) == o[1]

\* a borrow that moves the value out of the Option
as_refTaking(o) == None

\* Option::as_ref: the Option keeps its value
as_ref(o) == o

---------------------------------------------------------------------------
(* Constants of the program *)

DEFAULT_URI == "data:text/html;base64,PGh0bWw+..."

DefaultTimeoutMs == 10000
DefaultIntervalMs == 100

\* TA_BROWSER_WEBDRIVER_PORT as connect may find it: unset, or a port
WebdriverPorts == {None, Some(8080)}

ChromePortIgnoringOverride(webdriver_port) == 9515

\* webdriver_port.unwrap_or("9515")
ChromePort(webdriver_port) ==
    IF webdriver_port = None THEN 9515 ELSE Unwrap(webdriver_port)

\* webdriver_port.unwrap_or("4444")
FirefoxPort(webdriver_port) ==
    IF webdriver_port = None THEN 4444 ELSE Unwrap(webdriver_port)

\* The instructions of the engine, by family.  The handlers of a family
\* are the same code around one backend call, so one or two stand for each:
\* an alert and a navigation instruction, a selection, an element action.
SessionInstructions == {"browser-alert-dismiss", "browser-goto"}
SelectInstructions == {"browser-select-by-id"}
ElementInstructions == {"browser-element-click"}

---------------------------------------------------------------------------
(* The environment's objects *)

\* a session as the backend holds it
NewSession(port, caps) == [open |-> TRUE, url |-> "initial"]

\* a session the backend has deleted
ClosedSession == [open |-> FALSE, url |-> "closed"]

\* a spawned driver process; its command line is not looked at again
NewChild(program, args) == [program |-> program, alive |-> TRUE]

OpenSessions == {s \in 1..Len(sessions) : sessions[s].open}
AliveChildren == {c \in 1..Len(children) : children[c].alive}

\* A WebDriver value goes out of scope without quit(): whether the client
\* library then closes the session at the backend depends on its version.
DropWebDriver(sess, d, closes) ==
    IF d = None \/ ~closes THEN sess
    ELSE [sess EXCEPT ![Unwrap(d)] = ClosedSession]

---------------------------------------------------------------------------
(* The strings an element parameter can hold *)

\* the string form of a WebElement's JSON: it carries the element id the
\* backend assigned (here: the issuing session and the node), nothing else
ElementString(sid, node) == [kind |-> "element", id |-> <<sid, node>>]

ParamStrings ==
    {[kind |-> "text", id |-> <<>>], [kind |-> "json", id |-> <<>>]}
    \cup {ElementString(s, n) : s \in 1..MaxSessions, n \in 1..MaxNodes}

\* elem.to_json()?.to_string()
serialise_elem(elem) == ElementString(elem.id[1], elem.id[2])

\* a parser that accepts every string
from_strAcceptingAll(s) == [ok |-> TRUE, value |-> s]

\* serde_json::from_str: Ok(value) or the parse error
from_str(s) ==
    IF s.kind = "text" THEN [ok |-> FALSE, value |-> s]
    ELSE [ok |-> TRUE, value |-> s]

\* a from_json that refuses every value
from_jsonRefusing(json, handle) ==
    [ok |-> FALSE, elem |-> [id |-> <<>>, handle |-> handle]]

\* WebElement::from_json(json, handle): Ok(element bound to handle) or error
from_json(json, handle) ==
    IF json.kind = "element"
    THEN [ok |-> TRUE, elem |-> [id |-> json.id, handle |-> handle]]
    ELSE [ok |-> FALSE, elem |-> [id |-> <<>>, handle |-> handle]]

---------------------------------------------------------------------------
(* string_to_args, lib.rs 650-691 *)

\* the characters the match arms tell apart, and two ordinary ones
Chars == {"a", "b", " ", "\"", "\\"}

Strings == UNION {[1..n -> Chars] : n \in 0..MaxLen}

\* let mut args = vec![]; let mut quoted = false; let mut escaped = false;
\* let mut buffer = String::new();
ParseStart == [args |-> <<>>, quoted |-> FALSE, escaped |-> FALSE,
               buffer |-> <<>>]

\* a match in which a quote toggles quoting whether escaped or not
LoopBodyEscapedQuoteToggles(p, ch) ==
    IF ch = "\""
    THEN [p EXCEPT !.quoted = ~@, !.escaped = FALSE]
    ELSE IF ch = "\\"
    THEN [p EXCEPT !.escaped = TRUE]
    ELSE IF ch = " "
    THEN IF p.quoted
         THEN [p EXCEPT !.buffer = Append(@, ch), !.escaped = FALSE]
         ELSE [p EXCEPT !.args = Append(@, p.buffer), !.buffer = <<>>,
                        !.escaped = FALSE]
    ELSE [p EXCEPT !.buffer = Append(@, ch), !.escaped = FALSE]

\* a match in which an escaped space is kept in the token
LoopBodyEscapedSpaceJoins(p, ch) ==
    IF ch = "\""
    THEN IF p.escaped
         THEN [p EXCEPT !.buffer = Append(@, ch), !.escaped = FALSE]
         ELSE [p EXCEPT !.quoted = ~@, !.escaped = FALSE]
    ELSE IF ch = "\\"
    THEN [p EXCEPT !.escaped = TRUE]
    ELSE IF ch = " "
    THEN IF p.quoted \/ p.escaped
         THEN [p EXCEPT !.buffer = Append(@, ch), !.escaped = FALSE]
         ELSE [p EXCEPT !.args = Append(@, p.buffer), !.buffer = <<>>,
                        !.escaped = FALSE]
    ELSE [p EXCEPT !.buffer = Append(@, ch), !.escaped = FALSE]

\* the body of `for ch in s.as_ref().chars()`: one match on ch
LoopBody(p, ch) ==
    IF ch = "\""
    THEN IF p.escaped
         THEN [p EXCEPT !.buffer = Append(@, ch), !.escaped = FALSE]
         ELSE [p EXCEPT !.quoted = ~@, !.escaped = FALSE]
    ELSE IF ch = "\\"
    THEN [p EXCEPT !.escaped = TRUE]
    ELSE IF ch = " "
    THEN IF p.quoted
         THEN [p EXCEPT !.buffer = Append(@, ch), !.escaped = FALSE]
         ELSE [p EXCEPT !.args = Append(@, p.buffer), !.buffer = <<>>,
                        !.escaped = FALSE]
    ELSE [p EXCEPT !.buffer = Append(@, ch), !.escaped = FALSE]

\* a final push that does not look at quoted
FinalPushWhileQuoted(p) ==
    IF p.buffer # <<>> THEN Append(p.args, p.buffer) ELSE p.args

\* a final push that does not look at the buffer
FinalPushEmptyBuffer(p) ==
    IF ~p.quoted THEN Append(p.args, p.buffer) ELSE p.args

\* if !quoted && !buffer.is_empty() { args.push(buffer); }  args
FinalPush(p) ==
    IF ~p.quoted /\ p.buffer # <<>> THEN Append(p.args, p.buffer) ELSE p.args

\* the loop over the first n characters of str
RECURSIVE LoopOver(_, _)
LoopOver(str, n) ==
    IF n = 0 THEN ParseStart ELSE LoopBody(LoopOver(str, n - 1), str[n])

string_to_args(str) == FinalPush(LoopOver(str, Len(str)))

\* TA_BROWSER_*_ARGS as connect may find them (unset: String::new())
ArgStrings == {<<>>, <<"a">>}

\* for arg in browser_args { let _ = caps.add_chrome_arg(&arg); }
\* the arguments the capabilities hold afterwards, when the calls numbered
\* in `failing` returned Err
RECURSIVE AddArgs(_, _, _)
AddArgs(browser_args, failing, n) ==
    IF n = 0 THEN <<>>
    ELSE IF n \in failing THEN AddArgs(browser_args, failing, n - 1)
    ELSE Append(AddArgs(browser_args, failing, n - 1), browser_args[n])

\* string_to_args is not running
ParserOff ==
    /\ input = <<>>
    /\ pos = 0
    /\ parse = ParseStart
    /\ parsePc = "off"
    /\ consumed = <<>>
    /\ ret = <<>>

---------------------------------------------------------------------------
(* The call log *)

NoLocal == [backend |-> "none", port |-> 0, driver |-> None]

NoEnv == [use_chrome |-> None, use_firefox |-> None, webdriver_port |-> None]

NewCall(instr, env) ==
    [instr |-> instr,
     env |-> env,                 \* the environment variables connect read
     driver0 |-> driver,          \* State.driver when the handler was entered
     child0 |-> child_driver,     \* State.child_driver at that time
     alive0 |-> AliveChildren,    \* the children alive at that time
     opens |-> <<>>,              \* WebDriver::new calls: port, caps, outcome
     spawnCalls |-> 0,            \* Command::spawn calls
     spawned |-> <<>>,            \* the children they created
     recorded |-> <<>>,           \* State.child_driver at each WebDriver::new
     backendCalls |-> 0,          \* calls made on a session
     kills |-> <<>>,              \* Child::kill calls: the child, the outcome
     failed |-> {},               \* the sub-operations that returned Err
     param |-> None,              \* the element parameter of the instruction
     elem |-> None,               \* the WebElement a query returned
     decoded |-> None,            \* the WebElement the parameter decoded to
     pc0 |-> pc]                  \* where the handler running at entry stood

PollerOff == pollPc = "off" /\ elapsed = 0 /\ cur_tries = 0

Init ==
    /\ rt = None
    /\ driver = None
    /\ child_driver = None
    /\ timeout = DefaultTimeoutMs
    /\ interval = DefaultIntervalMs
    /\ pc = "idle"
    /\ local = NoLocal
    /\ sessions = <<>>
    /\ children = <<>>
    /\ dropped = "no"
    /\ result = "none"
    /\ output = None
    /\ call = NewCall("none", NoEnv)
    /\ afterQuit = FALSE
    /\ ParserOff
    /\ PollerOff

\* an engine that hands State to a handler while another one runs
IdleWithoutLock == dropped = "no"

Idle == pc = "idle" /\ dropped = "no"

\* state.rt.as_ref().ok_or(NotInitialised)?; state.driver.as_ref().ok_or(..)?
Initialised == rt # None /\ driver # None

---------------------------------------------------------------------------
(* browser-connect, lib.rs 51-113 *)

SelectBackendDefaultingToChrome(use_chrome, use_firefox) ==
    IF use_firefox # None /\ use_chrome = None THEN "firefox" ELSE "chrome"

\* a selection that looks at firefox first
SelectBackendPreferringFirefox(use_chrome, use_firefox) ==
    IF use_firefox # None THEN "firefox"
    ELSE IF use_chrome # None THEN "chrome"
    ELSE "none"

\* if let Some(..) = use_chrome {..} else if let Some(..) = use_firefox {..}
\* else { Err(..)? }
SelectBackend(use_chrome, use_firefox) ==
    IF use_chrome # None THEN "chrome"
    ELSE IF use_firefox # None THEN "firefox"
    ELSE "none"

\* Entry: the runtime is built and stored, the environment is read and the
\* backend is selected.  (Building the runtime is taken to succeed.)
Connect(use_chrome, use_firefox, webdriver_port) ==
    LET backend == SelectBackend(use_chrome, use_firefox) IN
    /\ Idle
    /\ rt' = Some("Runtime")
    /\ call' = NewCall("browser-connect",
                       [use_chrome |-> use_chrome, use_firefox |-> use_firefox,
                        webdriver_port |-> webdriver_port])
    /\ output' = None
    /\ IF backend = "none"
       THEN /\ local' = NoLocal
            /\ pc' = "idle"
            /\ result' = "NotImplemented"
       ELSE /\ local' = [backend |-> backend,
                         port |-> IF backend = "chrome"
                                  THEN ChromePort(webdriver_port)
                                  ELSE FirefoxPort(webdriver_port),
                         driver |-> None]
            /\ pc' = "direct"
            /\ result' = "running"
    /\ UNCHANGED <<parserVars, pollerVars, driver, child_driver, timeout, interval, sessions,
                   children, dropped, afterQuit>>

\* WebDriver::new(http://localhost:{port}, caps) as the backend answers it
OpenSession(ok, caps_args, errors) ==
    /\ ok => Len(sessions) < MaxSessions
    /\ call' = [call EXCEPT
                  !.opens = Append(@, [port |-> local.port,
                                       caps |-> local.backend,
                                       args |-> caps_args,
                                       ok |-> ok,
                                       sid |-> IF ok THEN Some(Len(sessions) + 1)
                                               ELSE None]),
                  !.recorded = Append(@, child_driver),
                  !.failed = @ \cup errors]
    /\ sessions' = IF ok
                   THEN Append(sessions, NewSession(local.port, local.backend))
                   ELSE sessions

AfterDirectAlwaysSpawn(ok) == "spawn"

\* if let Ok(driver) = rt.block_on(WebDriver::new(..)) { driver } else {..}
AfterDirect(ok) == IF ok THEN "goto" ELSE "spawn"

\* "Try to connect to running chromedriver / geckodriver"
ConnectDirect(ok) ==
    /\ pc = "direct"
    /\ OpenSession(ok, <<>>, IF ok THEN {} ELSE {"direct"})
    /\ local' = IF ok THEN [local EXCEPT !.driver = Some(Len(sessions) + 1)]
                ELSE local
    /\ pc' = AfterDirect(ok)
    /\ UNCHANGED <<parserVars, pollerVars, rt, driver, child_driver, timeout, interval, children,
                   dropped, result, output, afterQuit>>

RecordChildNot(c) == child_driver

\* state.child_driver = Some(child)
RecordChild(c) == Some(c)

\* the spawn error ignored instead of returned
ConnectSpawnIgnoringFailure(ok, args) ==
    /\ pc = "spawn"
    /\ ok => Len(children) < MaxChildren
    /\ IF ok
       THEN /\ children' = Append(children,
                                 NewChild(local.backend, string_to_args(args)))
            /\ child_driver' = RecordChild(Len(children) + 1)
            /\ call' = [call EXCEPT !.spawnCalls = @ + 1,
                                    !.spawned = Append(@, Len(children) + 1)]
       ELSE /\ call' = [call EXCEPT !.spawnCalls = @ + 1,
                                    !.failed = @ \cup {"spawn"}]
            /\ UNCHANGED <<children, child_driver>>
    /\ pc' = "second"
    /\ UNCHANGED <<parserVars, pollerVars, rt, driver, timeout, interval, sessions, dropped, output,
                   local, result, afterQuit>>

\* "Use chromedriver / geckodriver at path": Command::spawn, then the sleep
ConnectSpawn(ok, args) ==
    /\ pc = "spawn"
    /\ ok => Len(children) < MaxChildren
    /\ IF ok
       THEN /\ children' = Append(children,
                                 NewChild(local.backend, string_to_args(args)))
            /\ child_driver' = RecordChild(Len(children) + 1)
            /\ call' = [call EXCEPT !.spawnCalls = @ + 1,
                                    !.spawned = Append(@, Len(children) + 1)]
            /\ pc' = "second"
            /\ local' = local
            /\ result' = result
       ELSE /\ call' = [call EXCEPT !.spawnCalls = @ + 1,
                                    !.failed = @ \cup {"spawn"}]
            /\ pc' = "idle"
            /\ local' = NoLocal
            /\ result' = "SpawnFailed"
            /\ UNCHANGED <<children, child_driver>>
    /\ UNCHANGED <<parserVars, pollerVars, rt, driver, timeout, interval, sessions, dropped, output,
                   afterQuit>>

\* The capabilities are built from browser_args, each Result of
\* add_chrome_arg / add_firefox_arg discarded by `let _ =` (the calls
\* numbered in `failing` returned Err), then WebDriver::new against the
\* spawned driver.
ConnectSecond(ok, browser_args, failing) ==
    /\ pc = "second"
    /\ OpenSession(ok,
                   AddArgs(string_to_args(browser_args), failing,
                           Len(string_to_args(browser_args))),
                   (IF ok THEN {} ELSE {"open"})
                   \cup (IF failing = {} THEN {} ELSE {"add_arg"}))
    /\ IF ok
       THEN /\ local' = [local EXCEPT !.driver = Some(Len(sessions) + 1)]
            /\ pc' = "goto"
            /\ result' = result
       ELSE /\ local' = NoLocal
            /\ pc' = "idle"
            /\ result' = "WebDriverError"
    /\ UNCHANGED <<parserVars, pollerVars, rt, driver, child_driver, timeout, interval, children,
                   dropped, output, afterQuit>>

DriverStoredBeforeGoto(ok) == local.driver

\* rt.block_on(driver.goto(DEFAULT_URI))?; state.driver = Some(driver);
DriverAfterGoto(ok) == IF ok THEN local.driver ELSE driver

\* driver.goto(DEFAULT_URI), then state.driver = Some(driver)
ConnectGoto(ok, closes) ==
    /\ pc = "goto"
    /\ call' = [call EXCEPT !.backendCalls = @ + 1,
                            !.failed = IF ok THEN @ ELSE @ \cup {"goto"}]
    /\ driver' = DriverAfterGoto(ok)
    /\ IF ok
       THEN /\ sessions' = DropWebDriver(
                  [sessions EXCEPT ![Unwrap(local.driver)].url = DEFAULT_URI],
                  driver, closes)
            /\ result' = "Ok"
            /\ afterQuit' = FALSE
       ELSE /\ sessions' = DropWebDriver(sessions, local.driver, closes)
            /\ result' = "WebDriverError"
            /\ afterQuit' = afterQuit
    /\ pc' = "idle"
    /\ local' = NoLocal
    /\ UNCHANGED <<parserVars, pollerVars, rt, child_driver, timeout, interval, children, dropped,
                   output>>

---------------------------------------------------------------------------
(* browser-quit, lib.rs 117-124 *)

takeLeavingValue(o) == o

\* what Option::take leaves behind in the field
take(o) == None

Quit(ok, closes) ==
    /\ Idle
    /\ output' = None
    /\ rt' = take(rt)
    /\ IF rt = None \/ driver = None
       THEN /\ result' = "NotInitialised"
            /\ call' = [NewCall("browser-quit", NoEnv) EXCEPT
                          !.failed = {"ok_or"}]
            /\ UNCHANGED <<driver, sessions, afterQuit>>
       ELSE /\ driver' = take(driver)
            /\ call' = [NewCall("browser-quit", NoEnv) EXCEPT
                          !.backendCalls = 1,
                          !.failed = IF ok THEN {} ELSE {"quit"}]
            /\ IF ok
               THEN /\ sessions' = [sessions EXCEPT ![Unwrap(driver)] = ClosedSession]
                    /\ result' = "Ok"
                    /\ afterQuit' = TRUE
               ELSE /\ sessions' = DropWebDriver(sessions, driver, closes)
                    /\ result' = "WebDriverError"
                    /\ afterQuit' = afterQuit
    /\ UNCHANGED <<parserVars, pollerVars, child_driver, timeout, interval, pc, local, children,
                   dropped>>

---------------------------------------------------------------------------
(* Alert and navigation instructions, lib.rs 128-215 *)

\* an instruction that goes on after a backend call that failed
TrySwallowing(ok) == "Ok"

\* rt.block_on(..)?: Err leaves the handler with the error
Try(ok) == IF ok THEN "Ok" ELSE "WebDriverError"

SessionInstr(name, ok) ==
    /\ Idle
    /\ output' = None
    /\ IF ~Initialised
       THEN /\ result' = "NotInitialised"
            /\ call' = [NewCall(name, NoEnv) EXCEPT !.failed = {"ok_or"}]
            /\ UNCHANGED sessions
       ELSE /\ call' = [NewCall(name, NoEnv) EXCEPT
                          !.backendCalls = 1,
                          !.failed = IF ok THEN {} ELSE {"call"}]
            /\ result' = Try(ok)
            /\ IF ok
               THEN sessions' =
                         IF name = "browser-goto"
                         THEN [sessions EXCEPT ![Unwrap(driver)].url = "other"]
                         ELSE sessions
               ELSE UNCHANGED sessions
    /\ driver' = as_ref(driver)
    /\ UNCHANGED <<parserVars, pollerVars, rt, child_driver, timeout, interval, pc, local,
                   children, dropped, afterQuit>>

---------------------------------------------------------------------------
(* Element selection, lib.rs 218-329 *)

Select(name, node, found) ==
    /\ Idle
    /\ IF ~Initialised
       THEN /\ result' = "NotInitialised"
            /\ call' = [NewCall(name, NoEnv) EXCEPT !.failed = {"ok_or"}]
            /\ output' = None
       ELSE /\ call' = [NewCall(name, NoEnv) EXCEPT
                          !.backendCalls = 1,
                          !.failed = IF found THEN {} ELSE {"query"},
                          !.elem = IF found
                                   THEN Some([id |-> <<Unwrap(driver), node>>,
                                              handle |-> Unwrap(driver)])
                                   ELSE None]
            /\ IF found
               THEN /\ result' = "Ok"
                    /\ output' = Some(serialise_elem(
                            [id |-> <<Unwrap(driver), node>>,
                             handle |-> Unwrap(driver)]))
               ELSE /\ result' = Try(found)
                    /\ output' = None
    /\ driver' = as_ref(driver)
    /\ UNCHANGED <<parserVars, pollerVars, rt, child_driver, timeout, interval, pc, local,
                   sessions, children, dropped, afterQuit>>

---------------------------------------------------------------------------
(* Element actions, lib.rs 332-644 *)

\* the element parameter parsed before the session is asked for
ElementActionParseFirst(name, element, ok) ==
    /\ Idle
    /\ output' = None
    /\ IF ~from_str(element).ok
       THEN /\ result' = "InvalidElementParameter"
            /\ call' = [NewCall(name, NoEnv) EXCEPT
                          !.param = Some(element), !.failed = {"from_str"}]
       ELSE IF ~Initialised
       THEN /\ result' = "NotInitialised"
            /\ call' = [NewCall(name, NoEnv) EXCEPT
                          !.param = Some(element), !.failed = {"ok_or"}]
       ELSE IF ~from_json(from_str(element).value, Unwrap(driver)).ok
       THEN /\ result' = "InvalidElement"
            /\ call' = [NewCall(name, NoEnv) EXCEPT
                          !.param = Some(element), !.failed = {"from_json"}]
       ELSE /\ call' = [NewCall(name, NoEnv) EXCEPT
                          !.param = Some(element),
                          !.decoded = Some(from_json(from_str(element).value,
                                                     Unwrap(driver)).elem),
                          !.backendCalls = 1,
                          !.failed = IF ok THEN {} ELSE {"call"}]
            /\ result' = Try(ok)
    /\ driver' = as_ref(driver)
    /\ UNCHANGED <<parserVars, pollerVars, rt, child_driver, timeout, interval, pc, local,
                   sessions, children, dropped, afterQuit>>

ElementAction(name, element, ok) ==
    /\ Idle
    /\ output' = None
    /\ IF ~Initialised
       THEN /\ result' = "NotInitialised"
            /\ call' = [NewCall(name, NoEnv) EXCEPT
                          !.param = Some(element), !.failed = {"ok_or"}]
       ELSE IF ~from_str(element).ok
       THEN /\ result' = "InvalidElementParameter"
            /\ call' = [NewCall(name, NoEnv) EXCEPT
                          !.param = Some(element), !.failed = {"from_str"}]
       ELSE IF ~from_json(from_str(element).value, Unwrap(driver)).ok
       THEN /\ result' = "InvalidElement"
            /\ call' = [NewCall(name, NoEnv) EXCEPT
                          !.param = Some(element), !.failed = {"from_json"}]
       ELSE /\ call' = [NewCall(name, NoEnv) EXCEPT
                          !.param = Some(element),
                          !.decoded = Some(from_json(from_str(element).value,
                                                     Unwrap(driver)).elem),
                          !.backendCalls = 1,
                          !.failed = IF ok THEN {} ELSE {"call"}]
            /\ result' = Try(ok)
    /\ driver' = as_ref(driver)
    /\ UNCHANGED <<parserVars, pollerVars, rt, child_driver, timeout, interval, pc, local,
                   sessions, children, dropped, afterQuit>>

---------------------------------------------------------------------------
(* impl Drop for State, lib.rs 31-37 *)

ExpectIgnoringError(killOk) == "done"

\* child.kill().expect("failed to kill driver child")
Expect(killOk) == IF killOk THEN "done" ELSE "panicked"

DropState(killOk) ==
    /\ Idle
    /\ IF child_driver = None
       THEN /\ dropped' = "done"
            /\ call' = NewCall("drop", NoEnv)
            /\ UNCHANGED children
       ELSE /\ call' = [NewCall("drop", NoEnv) EXCEPT
                          !.kills = <<[child |-> Unwrap(child_driver),
                                       ok |-> killOk]>>]
            /\ children' = IF killOk
                           THEN [children EXCEPT
                                   ![Unwrap(child_driver)].alive = FALSE]
                           ELSE children
            /\ dropped' = Expect(killOk)
    /\ UNCHANGED <<parserVars, pollerVars, rt, driver, child_driver, timeout, interval, pc, local,
                   sessions, result, output, afterQuit>>

---------------------------------------------------------------------------

Next ==
    \/ \E use_chrome \in {None, Some("chromedriver")},
          use_firefox \in {None, Some("geckodriver")},
          webdriver_port \in WebdriverPorts :
            Connect(use_chrome, use_firefox, webdriver_port)
    \/ \E ok \in BOOLEAN : ConnectDirect(ok)
    \/ \E ok \in BOOLEAN, args \in ArgStrings : ConnectSpawn(ok, args)
    \/ \E ok \in BOOLEAN, browser_args \in ArgStrings :
          \E failing \in SUBSET (1..Len(string_to_args(browser_args))) :
            ConnectSecond(ok, browser_args, failing)
    \/ \E ok \in BOOLEAN, closes \in BOOLEAN : ConnectGoto(ok, closes)
    \/ \E ok \in BOOLEAN, closes \in BOOLEAN : Quit(ok, closes)
    \/ \E name \in SessionInstructions, ok \in BOOLEAN : SessionInstr(name, ok)
    \/ \E name \in SelectInstructions, node \in 1..MaxNodes, found \in BOOLEAN :
            Select(name, node, found)
    \/ \E name \in ElementInstructions, element \in ParamStrings, ok \in BOOLEAN :
            ElementAction(name, element, ok)
    \/ \E killOk \in BOOLEAN : DropState(killOk)

Spec == Init /\ [][Next]_vars

---------------------------------------------------------------------------
(* string_to_args run on one input, character by character *)

ArgsInit ==
    /\ rt = None
    /\ driver = None
    /\ child_driver = None
    /\ timeout = DefaultTimeoutMs
    /\ interval = DefaultIntervalMs
    /\ pc = "idle"
    /\ local = NoLocal
    /\ sessions = <<>>
    /\ children = <<>>
    /\ dropped = "no"
    /\ result = "none"
    /\ output = None
    /\ call = NewCall("none", NoEnv)
    /\ afterQuit = FALSE
    /\ input \in Strings
    /\ pos = 0
    /\ parse = ParseStart
    /\ parsePc = "loop"
    /\ consumed = <<>>
    /\ ret = <<>>
    /\ PollerOff

\* an iterator that skips a character when two are left
NextCharSkipping(i) == IF i + 2 <= Len(input) THEN i + 2 ELSE i + 1

\* s.as_ref().chars() yields the characters one after the other
NextChar(i) == i + 1

\* one iteration of the for loop
ParseChar ==
    /\ parsePc = "loop"
    /\ pos < Len(input)
    /\ pos' = NextChar(pos)
    /\ parse' = LoopBody(parse, input[pos'])
    /\ consumed' = Append(consumed, input[pos'])
    /\ UNCHANGED <<managerVars, pollerVars, input, parsePc, ret>>

\* the iterator is exhausted: the last push and the return
ParseReturn ==
    /\ parsePc = "loop"
    /\ pos >= Len(input)
    /\ ret' = FinalPush(parse)
    /\ parsePc' = "done"
    /\ UNCHANGED <<managerVars, pollerVars, input, pos, parse, consumed>>

ArgsNext == ParseChar \/ ParseReturn

ArgsSpec == ArgsInit /\ [][ArgsNext]_vars

\* string_to_args is straight-line code around one loop with nothing to
\* wait for: a step that can be taken is taken
ArgsFairSpec == ArgsSpec /\ WF_vars(ArgsNext)

---------------------------------------------------------------------------
(* A selection instruction step by step: driver.query(By::..)               *)
(* .wait(state.timeout, state.interval).first(), the query being repeated   *)
(* by the poller of the WebDriver client until a match or the timeout       *)

\* the manager after a connect that succeeded on the direct attempt
PollInit ==
    /\ rt = Some("Runtime")
    /\ driver = Some(1)
    /\ child_driver = None
    /\ timeout = DefaultTimeoutMs
    /\ interval = DefaultIntervalMs
    /\ pc = "idle"
    /\ local = NoLocal
    /\ sessions = <<[NewSession(ChromePort(None), "chrome") EXCEPT
                       !.url = DEFAULT_URI]>>
    /\ children = <<>>
    /\ dropped = "no"
    /\ result = "Ok"
    /\ output = None
    /\ call = NewCall("browser-connect", NoEnv)
    /\ afterQuit = FALSE
    /\ ParserOff
    /\ PollerOff

\* how long one find-elements request takes at the backend, in milliseconds
QueryDurationsMs == {20, 150}

\* what one find-elements request answers
QueryAnswers == {"match", "empty", "error"}

\* a call with the two durations in the wrong order
waitSwapped(t, i) == [timeout |-> i, interval |-> t]

\* .wait(state.timeout, state.interval): the poller the query will use
wait(t, i) == [timeout |-> t, interval |-> i]

\* the poller after an empty answer: give up once its timeout has elapsed,
\* else sleep until n intervals after the start
tick(poller, e, n) ==
    [continue |-> e < poller.timeout,
     until |-> IF e < poller.interval * n THEN poller.interval * n ELSE e]

\* entry of the handler up to the start of the poller
SelectStart(name) ==
    /\ Idle
    /\ pollPc = "off"
    /\ IF ~Initialised
       THEN /\ result' = "NotInitialised"
            /\ call' = [NewCall(name, NoEnv) EXCEPT !.failed = {"ok_or"}]
            /\ pollPc' = "returned"
       ELSE /\ result' = "running"
            /\ call' = NewCall(name, NoEnv)
            /\ pollPc' = "query"
    /\ output' = None
    /\ elapsed' = 0
    /\ cur_tries' = 0
    /\ UNCHANGED <<parserVars, rt, driver, child_driver, timeout, interval, pc,
                   local, sessions, children, dropped, afterQuit>>

\* one find-elements request; a match ends the poll, and so does an error
\* other than no-such-element (`?`)
PollQuery(node, answer, duration) ==
    /\ pollPc = "query"
    /\ elapsed' = elapsed + duration
    /\ IF answer = "match"
       THEN /\ call' = [call EXCEPT
                          !.backendCalls = @ + 1,
                          !.elem = Some([id |-> <<Unwrap(driver), node>>,
                                         handle |-> Unwrap(driver)])]
            /\ result' = "Ok"
            /\ output' = Some(serialise_elem(
                    [id |-> <<Unwrap(driver), node>>,
                     handle |-> Unwrap(driver)]))
            /\ pollPc' = "returned"
       ELSE IF answer = "error"
       THEN /\ call' = [call EXCEPT !.backendCalls = @ + 1,
                                    !.failed = {"query"}]
            /\ result' = "WebDriverError"
            /\ output' = None
            /\ pollPc' = "returned"
       ELSE /\ call' = [call EXCEPT !.backendCalls = @ + 1]
            /\ pollPc' = "tick"
            /\ UNCHANGED <<result, output>>
    /\ UNCHANGED <<parserVars, rt, driver, child_driver, timeout, interval, pc,
                   local, sessions, children, dropped, afterQuit, cur_tries>>

\* the poller after an empty answer: sleep and go on, or first() returns
\* no-such-element
PollTick ==
    /\ pollPc = "tick"
    /\ cur_tries' = cur_tries + 1
    /\ IF tick(wait(timeout, interval), elapsed, cur_tries').continue
       THEN /\ elapsed' = tick(wait(timeout, interval), elapsed,
                                cur_tries').until
            /\ pollPc' = "query"
            /\ UNCHANGED <<call, result>>
       ELSE /\ call' = [call EXCEPT !.failed = {"NoSuchElement"}]
            /\ result' = "WebDriverError"
            /\ pollPc' = "returned"
            /\ elapsed' = elapsed
    /\ UNCHANGED <<parserVars, rt, driver, child_driver, timeout, interval, pc,
                   local, sessions, children, dropped, afterQuit, output>>

PollNext ==
    \/ \E name \in SelectInstructions : SelectStart(name)
    \/ \E node \in 1..MaxNodes, answer \in QueryAnswers,
          duration \in QueryDurationsMs : PollQuery(node, answer, duration)
    \/ PollTick

PollSpec == PollInit /\ [][PollNext]_vars

---------------------------------------------------------------------------
(* Properties of the session manager *)

ConnectCall == call.instr = "browser-connect"
ConnectReturned == ConnectCall /\ pc = "idle"
DirectFailed == ConnectCall /\ Len(call.opens) >= 1 /\ ~call.opens[1].ok
DirectSucceeded == ConnectCall /\ Len(call.opens) >= 1 /\ call.opens[1].ok
OtherInstructions ==
    {"browser-quit"} \cup SessionInstructions \cup SelectInstructions
    \cup ElementInstructions

\* C1: once teardown has run, every driver child process that any connect
\* call spawned is terminated.
C1_EveryChildTerminatedAfterTeardown ==
    dropped = "done" => AliveChildren = {}

\* C2: a connect call whose direct session-open attempt failed issues exactly
\* one spawn, which creates at most one child, and when the second
\* session-open attempt is made that child's handle is already recorded in
\* State.child_driver.
C2_SpawnOnceRecordedBeforeSecondOpen ==
    DirectFailed =>
        /\ call.spawnCalls = (IF pc = "spawn" THEN 0 ELSE 1)
        /\ Len(call.spawned) <= 1
        /\ (pc = "second" \/ Len(call.opens) = 2) =>
              /\ Len(call.spawned) = 1
              /\ child_driver = Some(call.spawned[1])
        /\ Len(call.opens) = 2 => call.recorded[2] = Some(call.spawned[1])

C2_Witness ==
    /\ DirectFailed
    /\ Len(call.opens) = 2
    /\ call.child0 # None
    /\ child_driver = Some(call.spawned[1])

\* C3: when the direct session-open attempt succeeded, connect uses that
\* session (it is the one navigated and, on success, stored), makes no spawn
\* and leaves State.child_driver and the child processes as they were.
C3_DirectSuccessSpawnsNothing ==
    DirectSucceeded =>
        /\ Len(call.opens) = 1
        /\ call.spawnCalls = 0
        /\ call.spawned = <<>>
        /\ child_driver = call.child0
        /\ AliveChildren = call.alive0
        /\ pc \in {"goto", "idle"}
        /\ pc = "goto" => local.driver = call.opens[1].sid
        /\ (pc = "idle" /\ result = "Ok") => driver = call.opens[1].sid

C3_Witness ==
    /\ DirectSucceeded
    /\ pc = "idle"
    /\ result = "Ok"
    /\ call.child0 # None
    /\ driver = call.opens[1].sid

\* C4: at most one session opened by this process exists at the backend.
C4_AtMostOneSessionAtBackend ==
    Cardinality(OpenSessions) <= 1

\* C5: after a quit that returned Ok the manager holds no session, and until
\* a connect returns Ok every other instruction returns NotInitialised
\* without a backend call; a quit leaves State.child_driver and the child
\* processes as they were.
C5_QuitReleasesSessionKeepsChild ==
    /\ afterQuit =>
          /\ driver = None
          /\ (call.instr \in OtherInstructions
                /\ ~(call.instr = "browser-quit" /\ result = "Ok")) =>
                   (result = "NotInitialised" /\ call.backendCalls = 0)
    /\ call.instr = "browser-quit" =>
          /\ child_driver = call.child0
          /\ AliveChildren = call.alive0
          /\ result = "Ok" => (driver = None /\ call.driver0 # None)

C5_Witness ==
    /\ call.instr = "browser-quit"
    /\ result = "Ok"
    /\ child_driver # None
    /\ AliveChildren # {}
    /\ driver = None

C5_WitnessLater ==
    /\ afterQuit
    /\ call.instr \in SelectInstructions
    /\ result = "NotInitialised"

\* C6: an instruction other than connect that is entered while the manager
\* holds no session returns NotInitialised and makes no backend call.
C6_NoSessionMeansNotInitialised ==
    (call.instr \in OtherInstructions /\ call.driver0 = None) =>
        /\ result = "NotInitialised"
        /\ call.backendCalls = 0
        /\ call.opens = <<>>
        /\ driver = None

C6_Witness ==
    /\ call.instr \in ElementInstructions
    /\ call.driver0 = None
    /\ rt # None
    /\ ~afterQuit
    /\ result = "NotInitialised"

\* C7: connect with neither backend selected returns the not-implemented
\* error at once: no session-open attempt, no spawn, no child recorded, no
\* session stored.
C7_NoBackendFailsDeterministically ==
    (ConnectCall /\ call.env.use_chrome = None /\ call.env.use_firefox = None) =>
        /\ pc = "idle"
        /\ result = "NotImplemented"
        /\ call.opens = <<>>
        /\ call.spawnCalls = 0
        /\ call.backendCalls = 0
        /\ driver = call.driver0
        /\ child_driver = call.child0
        /\ AliveChildren = call.alive0

C7_Witness ==
    /\ ConnectCall
    /\ call.env.use_chrome = None
    /\ call.env.use_firefox = None
    /\ call.env.webdriver_port # None
    /\ result = "NotImplemented"

\* C8: a connect call makes at most two session-open attempts and at most
\* one spawn; a failed spawn ends the call with the spawn error and without a
\* second attempt; a failed attempt after the spawn ends it with that error;
\* in both cases State.driver is what it was.
C8_ConnectAttemptsBounded ==
    ConnectCall =>
        /\ Len(call.opens) <= 2
        /\ call.spawnCalls <= 1
        /\ Len(call.spawned) <= call.spawnCalls
        /\ Len(call.opens) = 2 => (~call.opens[1].ok /\ Len(call.spawned) = 1)
        /\ (call.spawnCalls = 1 /\ call.spawned = <<>>) =>
              /\ pc = "idle"
              /\ result = "SpawnFailed"
              /\ Len(call.opens) = 1
              /\ driver = call.driver0
        /\ (Len(call.opens) = 2 /\ ~call.opens[2].ok) =>
              /\ pc = "idle"
              /\ result = "WebDriverError"
              /\ call.backendCalls = 0
              /\ driver = call.driver0

C8_WitnessSpawnFailed ==
    ConnectCall /\ result = "SpawnFailed" /\ call.driver0 # None

C8_WitnessSecondFailed ==
    /\ ConnectCall
    /\ Len(call.opens) = 2
    /\ ~call.opens[2].ok
    /\ result = "WebDriverError"

\* C9: State.driver is written only after the navigation to the placeholder
\* page succeeded: after a connect that returned Ok the current session is
\* the one this call opened and it is on DEFAULT_URI; when the navigation
\* fails connect returns the error and State.driver is what it was.
C9_StoredOnlyAfterPlaceholder ==
    ConnectCall =>
        /\ pc # "idle" => driver = call.driver0
        /\ (pc = "idle" /\ result = "Ok") =>
              /\ call.backendCalls = 1
              /\ driver = call.opens[Len(call.opens)].sid
              /\ driver # call.driver0
              /\ sessions[Unwrap(driver)].url = DEFAULT_URI
              /\ sessions[Unwrap(driver)].open
        /\ (pc = "idle" /\ result # "Ok") => driver = call.driver0
        /\ (pc = "idle" /\ call.backendCalls = 1 /\ result # "Ok") =>
              result = "WebDriverError"

C9_WitnessStored ==
    /\ ConnectReturned
    /\ result = "Ok"
    /\ sessions[Unwrap(driver)].url = DEFAULT_URI

C9_WitnessNavigationFailed ==
    /\ ConnectReturned
    /\ call.backendCalls = 1
    /\ result = "WebDriverError"
    /\ call.driver0 # None
    /\ driver = call.driver0

\* C10: every session-open attempt of a connect call targets the override
\* port when TA_BROWSER_WEBDRIVER_PORT is set, else 9515 for chrome and 4444
\* for firefox; the attempt after the spawn targets the port of the direct
\* attempt.
C10_TargetPort ==
    ConnectCall =>
        \A i \in 1..Len(call.opens) :
            /\ call.opens[i].port =
                 (IF call.env.webdriver_port # None
                  THEN Unwrap(call.env.webdriver_port)
                  ELSE IF call.opens[i].caps = "chrome" THEN 9515 ELSE 4444)
            /\ call.opens[i].port = call.opens[1].port
            /\ call.opens[i].caps =
                 (IF call.env.use_chrome # None THEN "chrome" ELSE "firefox")

C10_WitnessOverride ==
    /\ ConnectCall
    /\ Len(call.opens) = 2
    /\ call.env.webdriver_port # None
    /\ call.opens[2].port = Unwrap(call.env.webdriver_port)

C10_WitnessDefault ==
    /\ ConnectCall
    /\ Len(call.opens) = 2
    /\ call.env.webdriver_port = None
    /\ call.env.use_chrome = None
    /\ call.opens[2].port = 4444

\* C11: teardown with a child recorded attempts exactly one kill, on that
\* child; when the kill fails teardown panics and does not complete; with no
\* child recorded teardown kills nothing and changes nothing.
C11_TeardownKillsOnceOrPanics ==
    call.instr = "drop" =>
        /\ dropped # "no"
        /\ call.child0 = None =>
              /\ call.kills = <<>>
              /\ dropped = "done"
              /\ AliveChildren = call.alive0
        /\ call.child0 # None =>
              /\ Len(call.kills) = 1
              /\ call.kills[1].child = Unwrap(call.child0)
              /\ call.kills[1].ok =>
                    /\ dropped = "done"
                    /\ AliveChildren = call.alive0 \ {Unwrap(call.child0)}
              /\ ~call.kills[1].ok =>
                    /\ dropped = "panicked"
                    /\ AliveChildren = call.alive0

C11_Witness ==
    /\ call.instr = "drop"
    /\ call.child0 # None
    /\ ~call.kills[1].ok
    /\ dropped = "panicked"

C11_WitnessNoChild ==
    /\ call.instr = "drop"
    /\ call.child0 = None
    /\ driver # None
    /\ dropped = "done"


\* C12: an instruction has returned and one of its sub-operations other
\* than connect's direct attempt returned Err: the instruction returned an
\* error to the caller.  Violated: the Result of add_chrome_arg /
\* add_firefox_arg is discarded by `let _ =` (lib.rs 78, 99), so connect
\* returns Ok although adding a configured browser argument failed.
C12_NoErrorSwallowed ==
    (pc = "idle" /\ call.failed \ {"direct"} # {}) => result # "Ok"

\* every other failing sub-operation does reach the caller
C12_OthersReported ==
    (pc = "idle" /\ call.failed \ {"direct", "add_arg"} # {}) => result # "Ok"

\* an element instruction has returned after it found rt and driver set
ElementCallDecoded ==
    /\ pc = "idle"
    /\ call.instr \in ElementInstructions
    /\ "ok_or" \notin call.failed
    /\ call.param # None

\* C19: an element instruction given a well-formed wire-form of a session
\* other than the current one returns the "Invalid element" error and makes
\* no backend call.  Violated: WebElement::from_json only looks at the
\* shape of the JSON and attaches the current handle, so the decode
\* succeeds and the action is sent to the current session.
C19_ForeignWireFormRejected ==
    (/\ ElementCallDecoded
     /\ Unwrap(call.param).kind = "element"
     /\ Unwrap(call.param).id[1] \in 1..Len(sessions)
     /\ Unwrap(call.param).id[1] # Unwrap(call.driver0))
    => (result = "InvalidElement" /\ call.backendCalls = 0)

\* C20: an element instruction given a string that is not JSON returns
\* the "Invalid element parameter" error: from_json was not reached and no
\* backend call was made.
C20_UnparsableIsParameterError ==
    (ElementCallDecoded /\ Unwrap(call.param).kind = "text")
    => /\ result = "InvalidElementParameter"
       /\ "from_json" \notin call.failed
       /\ call.backendCalls = 0

C20_Witness ==
    /\ ElementCallDecoded
    /\ driver # None
    /\ Unwrap(call.param).kind = "text"
    /\ result = "InvalidElementParameter"

\* the handles of the nodes of the current session
CurrentHandles ==
    {[id |-> <<Unwrap(driver), n>>, handle |-> Unwrap(driver)] :
        n \in 1..MaxNodes}

CodecInstructions == SelectInstructions \cup ElementInstructions
DecodeFailures == {"from_str", "from_json"}

\* C23: a step of a selection instruction (encode) or of an element
\* instruction (decode) leaves the runtime, the current session, the
\* recorded child, the timeout and the interval as they were; and an
\* element instruction that follows one with the same string decodes it
\* with the same outcome: the same element or the same decode error.
C23_CodecHoldsNoState ==
    [][(pc = "idle" /\ call'.instr \in CodecInstructions)
       => /\ UNCHANGED <<rt, driver, child_driver, timeout, interval>>
          /\ (/\ call.instr \in ElementInstructions
              /\ call'.instr \in ElementInstructions
              /\ call'.param = call.param)
             => /\ call'.decoded = call.decoded
                /\ call'.failed \cap DecodeFailures
                   = call.failed \cap DecodeFailures]_vars

\* a string was decoded on the session that a spawned child serves
C23_Witness ==
    /\ ElementCallDecoded
    /\ call.decoded # None
    /\ driver # None /\ driver = call.driver0
    /\ child_driver # None /\ child_driver = call.child0

\* an instruction that borrows the session has returned and its backend
\* call had returned an error
BackendCallFailed ==
    /\ pc = "idle"
    /\ call.instr \in SessionInstructions \cup SelectInstructions
                      \cup ElementInstructions
    /\ call.failed \cap {"call", "query"} # {}

\* C24: when the backend call of a navigation, alert, selection or element
\* instruction returns an error, the instruction returns the error after
\* that one call (a selection: after its poll, C22), State.rt, State.driver
\* and State.child_driver are what they were at entry, and the session is
\* still set and still open at the backend for the next instruction.
C24_BackendErrorReturnedSessionKept ==
    BackendCallFailed
    => /\ result = "WebDriverError"
       /\ call.backendCalls = 1
       /\ driver = call.driver0
       /\ child_driver = call.child0
       /\ Initialised
       /\ Unwrap(driver) \in OpenSessions

C24_WitnessNavigation ==
    BackendCallFailed /\ call.instr = "browser-goto" /\ child_driver # None

C24_WitnessElement ==
    BackendCallFailed /\ call.instr \in ElementInstructions

C24_WitnessSelection ==
    BackendCallFailed /\ call.instr \in SelectInstructions

ElementCallReturned ==
    pc = "idle" /\ call.instr \in ElementInstructions /\ call.param # None

\* C26: an element instruction checks in the order session, parse, bind,
\* backend action, and the first check that fails decides the result: no
\* session gives NotInitialised whatever the string, then a string that
\* does not parse gives the parameter error, then a value that is not an
\* element gives the element error, and the backend action is issued only
\* when all three succeeded.
C26_ChecksInFixedOrder ==
    ElementCallReturned =>
      LET kind == Unwrap(call.param).kind IN
      /\ ~Initialised
         => result = "NotInitialised" /\ call.failed = {"ok_or"}
      /\ (Initialised /\ kind = "text")
         => result = "InvalidElementParameter" /\ call.failed = {"from_str"}
      /\ (Initialised /\ kind = "json")
         => result = "InvalidElement" /\ call.failed = {"from_json"}
      /\ call.backendCalls = (IF Initialised /\ kind = "element" THEN 1 ELSE 0)
      /\ call.backendCalls = 1
         => call.decoded # None /\ call.failed \subseteq {"call"}

\* no session and a malformed string: the not-initialised error
C26_Witness ==
    /\ ElementCallReturned
    /\ ~Initialised
    /\ Unwrap(call.param).kind = "text"
    /\ result = "NotInitialised"
    /\ call.backendCalls = 0

\* C27: while connect runs, and after a connect that returned an error at
\* any of its steps, State.driver is what it was when connect was entered,
\* and the session it holds is still open; only a connect that returns Ok
\* has written the slot.
C27_FailedConnectKeepsSession ==
    (ConnectCall /\ (pc # "idle" \/ result # "Ok"))
    => /\ driver = call.driver0
       /\ driver # None => Unwrap(driver) \in OpenSessions

\* a session was held and the placeholder navigation of a new one failed
C27_WitnessNavigation ==
    /\ ConnectReturned /\ result = "WebDriverError"
    /\ "goto" \in call.failed
    /\ call.driver0 # None /\ driver = call.driver0

\* a session was held and the spawn failed
C27_WitnessSpawn ==
    /\ ConnectReturned /\ "spawn" \in call.failed
    /\ call.driver0 # None /\ driver = call.driver0

\* a session was held and the attempt after the spawn failed
C27_WitnessSecond ==
    /\ ConnectReturned /\ "open" \in call.failed
    /\ call.driver0 # None /\ driver = call.driver0

\* a session was held and no backend was selected
C27_WitnessNoBackend ==
    /\ ConnectReturned /\ result = "NotImplemented"
    /\ call.driver0 # None /\ driver = call.driver0

QuitCall == pc = "idle" /\ call.instr = "browser-quit"

\* C28: a quit whose backend close call failed returns the error after
\* that one call and leaves State.rt and State.driver empty; and a quit
\* entered with no session, such as the next one, returns NotInitialised
\* without any backend call: the close is not tried again.
C28_FailedQuitDropsSession ==
    /\ (QuitCall /\ "quit" \in call.failed)
       => /\ result = "WebDriverError"
          /\ call.backendCalls = 1
          /\ call.driver0 # None
          /\ driver = None /\ rt = None
    /\ (QuitCall /\ call.driver0 = None)
       => /\ result = "NotInitialised"
          /\ call.backendCalls = 0
          /\ driver = None

\* the close call failed and the manager holds no session
C28_Witness ==
    /\ QuitCall
    /\ "quit" \in call.failed
    /\ call.driver0 # None
    /\ driver = None
    /\ result = "WebDriverError"

BothSelected ==
    ConnectCall /\ call.env.use_chrome # None /\ call.env.use_firefox # None

\* C29: a connect that finds both TA_BROWSER_USE_CHROME and
\* TA_BROWSER_USE_FIREFOX set works on chrome alone: every session-open
\* attempt uses chrome capabilities and the chrome port (the override or
\* 9515), every child spawned is the chrome driver, and there are at most
\* the two chrome attempts and the one chrome spawn, whatever fails.
C29_BothSelectedMeansChrome ==
    BothSelected
    => /\ pc # "idle" => local.backend = "chrome"
       /\ Len(call.opens) <= 2 /\ call.spawnCalls <= 1
       /\ \A i \in 1..Len(call.opens) :
             /\ call.opens[i].caps = "chrome"
             /\ call.opens[i].port =
                  (IF call.env.webdriver_port # None
                   THEN Unwrap(call.env.webdriver_port) ELSE 9515)
       /\ \A i \in 1..Len(call.spawned) :
             children[call.spawned[i]].program = "chrome"

\* both selected and every chrome attempt failed: connect returned
C29_Witness ==
    /\ BothSelected /\ pc = "idle"
    /\ Len(call.opens) = 2
    /\ ~call.opens[1].ok /\ ~call.opens[2].ok
    /\ Len(call.spawned) = 1
    /\ result = "WebDriverError"

---------------------------------------------------------------------------
(* Properties of string_to_args *)

Returned == parsePc = "done"

\* What the text says of the split, stated on the positions of the input
\* and not by running the loop: a backslash marks the next character as
\* escaped and is not itself part of a token; a quote that is not escaped
\* switches quoting; a space outside quotes is a cut.
IsEscapedAt(str, i) == i > 1 /\ str[i - 1] = "\\"
IsQuoteMark(str, i) == str[i] = "\"" /\ ~IsEscapedAt(str, i)
QuoteMarksBefore(str, i) == {j \in 1..(i - 1) : IsQuoteMark(str, j)}
InsideQuotes(str, i) == Cardinality(QuoteMarksBefore(str, i)) % 2 = 1
IsCut(str, i) == str[i] = " " /\ ~InsideQuotes(str, i)
Balanced(str) == ~InsideQuotes(str, Len(str) + 1)
IsTokenChar(str, i) ==
    ~IsCut(str, i) /\ ~IsQuoteMark(str, i) /\ str[i] # "\\"

\* the token characters at positions a .. b-1
RECURSIVE Piece(_, _, _)
Piece(str, a, b) ==
    IF a >= b THEN <<>>
    ELSE (IF IsTokenChar(str, a) THEN <<str[a]>> ELSE <<>>)
         \o Piece(str, a + 1, b)

\* the pieces between the cuts, from position a on
RECURSIVE PiecesFrom(_, _)
PiecesFrom(str, a) ==
    LET cuts == {i \in a..Len(str) : IsCut(str, i)} IN
    IF cuts = {} THEN <<Piece(str, a, Len(str) + 1)>>
    ELSE LET c == CHOOSE i \in cuts : \A j \in cuts : i <= j IN
         <<Piece(str, a, c)>> \o PiecesFrom(str, c + 1)

IsToken(tok) == tok # <<>>
Tokens(str) == SelectSeq(PiecesFrom(str, 1), IsToken)

\* C13: for an input without unmatched quotes the result is the sequence
\* of tokens between the spaces that are outside quotes, unescaped quotes
\* removed, spaces inside quotes kept.  Violated because of the empty
\* strings of C14: "a  b" gives <<a, "", b>>.
C13_SplitsAtUnquotedSpaces ==
    (Returned /\ Balanced(input)) => ret = Tokens(input)

\* apart from the empty strings the split is as stated
C13_SplitUpToEmptyStrings ==
    (Returned /\ Balanced(input)) => SelectSeq(ret, IsToken) = Tokens(input)

\* C14: every element of the result of string_to_args is non-empty.
\* Violated: the space arm pushes the buffer without looking at it
\* (lib.rs 674), so a leading space, two spaces in a row or a space after
\* an empty quoted section push an empty string.
C14_NoEmptyToken ==
    Returned => \A i \in 1..Len(ret) : ret[i] # <<>>


\* C15: a step of the loop that reads a quote right after a backslash
\* appends the quote to the buffer and leaves the quoted mode and the
\* finished arguments as they were; a step that reads a backslash leaves
\* buffer, mode and arguments as they were (the backslash is not emitted).
C15_EscapedQuoteIsLiteral ==
    [][(parsePc = "loop" /\ pos' = pos + 1) =>
         /\ (input[pos'] = "\"" /\ pos >= 1 /\ input[pos] = "\\") =>
               /\ parse'.buffer = Append(parse.buffer, "\"")
               /\ parse'.quoted = parse.quoted
               /\ parse'.args = parse.args
         /\ input[pos'] = "\\" =>
               /\ parse'.buffer = parse.buffer
               /\ parse'.quoted = parse.quoted
               /\ parse'.args = parse.args]_vars

\* the input "\"b" in quotes has been split into the one token "b
C15_Witness ==
    /\ Returned
    /\ input = <<"\"", "\\", "\"", "b", "\"">>
    /\ ret = <<<<"\"", "b">>>>


\* the last space outside quotes (0: there is none)
LastCut(str) ==
    LET cuts == {i \in 1..Len(str) : IsCut(str, i)} IN
    IF cuts = {} THEN 0 ELSE CHOOSE i \in cuts : \A j \in cuts : j <= i

\* what is buffered since the last token boundary when the input ends
PartialToken(str) == Piece(str, LastCut(str) + 1, Len(str) + 1)

\* C16: when the input ends inside quotes, the result is what the input
\* cut off at its last token boundary gives: the tokens completed before
\* are returned unchanged and the partial token is not emitted.
C16_UnterminatedQuoteDropsPartialToken ==
    (Returned /\ ~Balanced(input)) =>
        /\ ret = string_to_args(SubSeq(input, 1, LastCut(input)))
        /\ Len(ret) = Cardinality({i \in 1..Len(input) : IsCut(input, i)})

\* a token was completed, then a non-empty partial token was dropped
C16_Witness ==
    /\ Returned
    /\ ~Balanced(input)
    /\ ret = <<<<"a">>>>
    /\ PartialToken(input) = <<"b">>

\* C18: string_to_args on the empty input returns the empty sequence.
C18_EmptyInputGivesNoArgs ==
    (Returned /\ input = <<>>) => ret = <<>>

C18_Witness == Returned /\ input = <<>> /\ consumed = <<>> /\ pos = 0


\* C17: on every input the loop has consumed exactly the characters up to
\* its position, each once and in order, and the run ends: the function
\* returns, having consumed the whole input, a sequence of strings.
C17_TotalEachCharOnce ==
    /\ [](pos \in 0..Len(input) /\ consumed = SubSeq(input, 1, pos))
    /\ <>(/\ Returned
          /\ consumed = input
          /\ \A i \in 1..Len(ret) : \A j \in 1..Len(ret[i]) : ret[i][j] \in Chars)

\* a run over an input with an unmatched quote has returned
C17_Witness ==
    /\ Returned
    /\ ~Balanced(input)
    /\ Len(input) >= 3
    /\ consumed = input


---------------------------------------------------------------------------
(* Properties of the locator poll *)

PollReturned == pollPc = "returned"
NotFound == PollReturned /\ "NoSuchElement" \in call.failed

C22_WitnessLateMatch ==
    PollReturned /\ result = "Ok" /\ cur_tries >= 2 /\ output # None



\* the input without the backslashes that do not stand right before a quote
RECURSIVE WithoutIdleBackslashes(_, _)
WithoutIdleBackslashes(str, i) ==
    IF i > Len(str) THEN <<>>
    ELSE (IF str[i] = "\\" /\ ~(i < Len(str) /\ str[i + 1] = "\"")
          THEN <<>> ELSE <<str[i]>>)
         \o WithoutIdleBackslashes(str, i + 1)

\* C30: no argument, finished or buffered, ever holds a backslash; the
\* result is the one the input gives once every backslash that does not
\* stand right before a quote is deleted, so such a backslash changes
\* nothing; and every space outside quotes read so far has ended an
\* argument, a backslash in front of it or not.
C30_BackslashesDropped ==
    /\ \A i \in 1..Len(parse.args) : \A j \in 1..Len(parse.args[i]) :
          parse.args[i][j] # "\\"
    /\ \A j \in 1..Len(parse.buffer) : parse.buffer[j] # "\\"
    /\ Len(parse.args) = Cardinality({i \in 1..pos : IsCut(input, i)})
    /\ Returned =>
          /\ \A i \in 1..Len(ret) : \A j \in 1..Len(ret[i]) : ret[i][j] # "\\"
          /\ ret = string_to_args(WithoutIdleBackslashes(input, 1))

\* a backslash before an unquoted space: the space still separates
C30_Witness ==
    /\ Returned
    /\ input = <<"a", "\\", " ", "b">>
    /\ ret = <<<<"a">>, <<"b">>>>


====
